---- MODULE Spec2Model ----
(***************************************************************************)
(* Model of student_agent_core.py: the block scheduler plan_blocks with    *)
(* next_work_start, and the extraction pipeline (rule_based_extract,       *)
(* llm_extract, the de-duplication of extract_tasks_from_inputs).          *)
(*                                                                         *)
(* Time is wall-clock minutes in APP_TZ counted from midnight of the day   *)
(* on which plan_blocks reads the clock; all datetimes of one run carry    *)
(* the same tzinfo, so Python compares and subtracts them as wall-clock    *)
(* values.  An Optional value is a sequence of length 0 (None) or 1.       *)
(***************************************************************************)
EXTENDS Integers, Sequences, FiniteSets, TLC

VARIABLES
    pc,            \* "idle", or the position in plan_blocks: "for", "while", "done"
    now,           \* datetime.now(APP_TZ) read at the top of plan_blocks
    WORK_START,    \* module variable, minutes after midnight
    WORK_END,      \* module variable, minutes after midnight
    daily_hours,   \* the daily_hours argument, in half hours (slider step 0.5)
    tasks,         \* the tasks argument
    by_priority,   \* the sorted task list
    idx,           \* index in by_priority of the task being placed
    remaining,     \* minutes of the current task still to place
    cursor,        \* the scheduling cursor
    last_allowed,  \* the current task's deadline cutoff
    day_budget,    \* dict day -> minutes used
    blocks,        \* the result list
    xpc,           \* position in the extraction call, "idle" when none runs
    xfun,          \* the function called: "rule_based_extract" or "llm_extract"
    text,          \* its text argument, a sequence of characters
    source_name,   \* its source_name argument
    xnow,          \* the clock rule_based_extract reads for the priority
    lines,         \* rule_based_extract: the stripped non-empty lines
    li,            \* rule_based_extract: lines handled so far
    rb_tasks,      \* rule_based_extract: its tasks list
    rb_calls,      \* arguments of the rule_based_extract calls made so far
    response,      \* llm_extract: what the chat completion call does
    llm_calls,     \* llm_extract: chat completion calls made so far
    raw,           \* llm_extract: the elements the for loop iterates over
    lk,            \* llm_extract: elements handled so far
    llm_tasks,     \* llm_extract: its tasks list
    in_try,        \* llm_extract: TRUE while inside the try block
    result,        \* what the called function returned
    dpc,           \* position in the de-duplication, "idle" when none runs
    all_tasks,     \* extract_tasks_from_inputs: the tasks of all sources
    seen,          \* extract_tasks_from_inputs: the keys met so far
    deduped,       \* extract_tasks_from_inputs: the list it returns
    di,            \* tasks of all_tasks handled so far
    first_out,     \* the list returned before it was handed in again
    tasks_cache,   \* st.session_state["tasks_cache"]
    blocks_cache,  \* st.session_state["blocks_cache"]
    extracts,      \* Extract clicks that found tasks so far
    exported,      \* the blocks of the last .ics download, <<>> before the first
    notice         \* the message the last click showed

planVars == <<pc, now, WORK_START, WORK_END, daily_hours, tasks, by_priority, idx,
              remaining, cursor, last_allowed, day_budget, blocks>>

ruleVars == <<xnow, lines, li, rb_tasks, rb_calls>>

llmVars == <<response, llm_calls, raw, lk, llm_tasks, in_try>>

extractVars == <<xpc, xfun, text, source_name, ruleVars, llmVars, result>>

dedupeVars == <<dpc, all_tasks, seen, deduped, di, first_out>>

appVars == <<tasks_cache, blocks_cache, extracts, exported, notice>>

vars == <<planVars, extractVars, dedupeVars, appVars>>

(***************************************************************************)
(* Program constants.                                                      *)
(***************************************************************************)
BLOCK_MINUTES == 50
DEFAULT_EST_MINUTES == 60
MIN_TASK_MINUTES == 30
BREAK_MINUTES == 10
NO_DUE_HORIZON_DAYS == 14
NO_DUE_SORT_DAYS == 30
DAY == 1440
TITLE_CHARS == 60
\* decimal digits of the largest finite float, 1.8e308
FLOAT_MAX_DIGITS == 309

(***************************************************************************)
(* Bounds of the model.                                                    *)
(***************************************************************************)
MaxTasks == 2
MaxPieces == 3
MaxElements == 2
MaxInputs == 3
MaxExtracts == 2

None == <<>>
Some(x) == <<x>>

Min2(a, b) == IF a <= b THEN a ELSE b
Max2(a, b) == IF a >= b THEN a ELSE b

\* datetime.date() and datetime.time() of a wall-clock instant
DateOf(t) == t \div DAY
TimeOf(t) == t % DAY

\* datetime.replace(hour=h.hour, minute=h.minute) for a whole-minute clock
ReplaceHM(t, hm) == DateOf(t) * DAY + hm

(***************************************************************************)
(* next_work_start                                                         *)
(***************************************************************************)
\* mutant: after the end of the work day the date is not advanced
next_work_start_SameDay(after) == ReplaceHM(after, WORK_START)

next_work_start(after) ==
    IF TimeOf(after) < WORK_START
    THEN ReplaceHM(after, WORK_START)
    ELSE IF TimeOf(after) >= WORK_END
         THEN ReplaceHM(after + DAY, WORK_START)
         ELSE after

\* mutant: the snap to the next work start forgotten
NextDayCursor_NoSnap(c) == ReplaceHM(c, WORK_END) + 1

\* the cursor of both "advance to next day" branches
NextDayCursor(c) == next_work_start(ReplaceHM(c, WORK_END) + 1)

(***************************************************************************)
(* sorted(tasks, key=(priority, due or now + 30 days)): stable.            *)
(***************************************************************************)
\* t0 is the clock plan_blocks has read
DueKey(t, t0) == IF t.due = None THEN t0 + NO_DUE_SORT_DAYS * DAY ELSE t.due[1]

KeyLess(a, b, t0) ==
    \/ a.priority < b.priority
    \/ a.priority = b.priority /\ DueKey(a, t0) < DueKey(b, t0)

\* insert t after every element whose key is not greater than t's key
InsertSorted(s, t, t0) ==
    LET later == {i \in 1..Len(s) : KeyLess(t, s[i], t0)}
        p == IF later = {} THEN Len(s) + 1
             ELSE CHOOSE i \in later : \A j \in later : i <= j
    IN  SubSeq(s, 1, p - 1) \o <<t>> \o SubSeq(s, p, Len(s))

RECURSIVE SortedByKey(_, _)
SortedByKey(s, t0) ==
    IF s = <<>> THEN <<>>
    ELSE InsertSorted(SortedByKey(SubSeq(s, 1, Len(s) - 1), t0), s[Len(s)], t0)

(***************************************************************************)
(* The body of plan_blocks.                                                *)
(***************************************************************************)
EstOrDefault(t) ==
    IF t.est_minutes = None \/ t.est_minutes[1] = 0
    THEN DEFAULT_EST_MINUTES ELSE t.est_minutes[1]

\* mutant: the 30 minute floor forgotten
InitialRemaining_NoFloor(t) == EstOrDefault(t)

InitialRemaining(t) == Max2(MIN_TASK_MINUTES, EstOrDefault(t))

InitialCursor == next_work_start(now)

\* mutant: the hour before the due date forgotten
LastAllowed_AtDue(t) ==
    IF t.due = None THEN now + NO_DUE_HORIZON_DAYS * DAY ELSE t.due[1]

LastAllowed(t) ==
    IF t.due = None THEN now + NO_DUE_HORIZON_DAYS * DAY ELSE t.due[1] - 60

Cap == daily_hours * 30

Used(day) == IF day \in DOMAIN day_budget THEN day_budget[day] ELSE 0

\* mutant: the day's remaining budget left out of the minimum
BlockLen_NoCap == Min2(BLOCK_MINUTES, remaining)

BlockLen == Min2(BLOCK_MINUTES, Min2(remaining, Cap - Used(DateOf(cursor))))

LoopCondition == remaining > 0 /\ cursor <= last_allowed

CrossesWorkEnd(block_end) == TimeOf(block_end) > WORK_END

\* mutant: the break after a block forgotten
CursorAfterBlock_NoBreak(block_end) == block_end

\* line 216: cursor = block_end + timedelta(minutes=10)
CursorAfterBlock(block_end) == block_end + BREAK_MINUTES

(***************************************************************************)
(* Text.  A str is a sequence of one-character strings.                    *)
(***************************************************************************)
UpperCase == <<"A", "B", "C", "D", "E", "F", "G", "H", "I", "J", "K", "L", "M", "N", "O", "P", "Q", "R", "S", "T", "U", "V", "W", "X", "Y", "Z">>
LowerCase == <<"a", "b", "c", "d", "e", "f", "g", "h", "i", "j", "k", "l", "m", "n", "o", "p", "q", "r", "s", "t", "u", "v", "w", "x", "y", "z">>
Digits == <<"0", "1", "2", "3", "4", "5", "6", "7", "8", "9">>

SetMin(S) == CHOOSE x \in S : \A y \in S : x <= y
SetMax(S) == 0 - SetMin({0 - x : x \in S})

UpperSet == {UpperCase[i] : i \in 1..26}
LetterSet == UpperSet \cup {LowerCase[i] : i \in 1..26}
DigitSet == {Digits[i] : i \in 1..10}

IsLetter(c) == c \in LetterSet
IsDigit(c) == c \in DigitSet

\* \w of the re module
IsWordChar(c) == IsLetter(c) \/ IsDigit(c) \/ c = "_"

\* the whitespace of str.strip() and of \s
IsSpace(c) == c \in {" ", "\t", "\n", "\r", "\f"}

\* the line boundaries of str.splitlines()
IsLineBreak(c) == c \in {"\n", "\r", "\f"}

\* str.lower(), and what re.IGNORECASE compares
LowerOf == [c \in UpperSet |-> LowerCase[CHOOSE i \in 1..26 : c = UpperCase[i]]]

Lower(c) == IF c \in UpperSet THEN LowerOf[c] ELSE c

LowerStr(s) == [i \in 1..Len(s) |-> Lower(s[i])]

\* str.strip()
Strip(s) ==
    LET keep == {i \in 1..Len(s) : ~IsSpace(s[i])}
    IN  IF keep = {} THEN <<>> ELSE SubSeq(s, SetMin(keep), SetMax(keep))

\* str.splitlines(): "\r\n" is one boundary, no empty last line
RECURSIVE SplitLines(_)
SplitLines(s) ==
    IF s = <<>> THEN <<>>
    ELSE LET brk == {i \in 1..Len(s) : IsLineBreak(s[i])}
         IN  IF brk = {} THEN <<s>>
             ELSE LET b == SetMin(brk)
                      e == IF s[b] = "\r" /\ b < Len(s) /\ s[b + 1] = "\n"
                           THEN b + 1 ELSE b
                  IN  <<SubSeq(s, 1, b - 1)>> \o SplitLines(SubSeq(s, e + 1, Len(s)))

\* s[:n]
Take(s, n) == SubSeq(s, 1, Min2(n, Len(s)))

\* str.replace("\n", " ")
NewlinesToSpaces(s) == [i \in 1..Len(s) |-> IF s[i] = "\n" THEN " " ELSE s[i]]

\* the lower-case word w stands at position p of s, ignoring case
MatchesAt(s, p, w) ==
    /\ p >= 1
    /\ p + Len(w) - 1 <= Len(s)
    /\ \A k \in 1..Len(w) : Lower(s[p + k - 1]) = w[k]

\* \b between s[p - 1] and s[p]
BoundaryAt(s, p) ==
    LET before == p > 1 /\ p - 1 <= Len(s) /\ IsWordChar(s[p - 1])
        after == p >= 1 /\ p <= Len(s) /\ IsWordChar(s[p])
    IN  before # after

(***************************************************************************)
(* rule_based_extract                                                      *)
(***************************************************************************)
ACTION_VERBS ==
    { <<"a", "s", "s", "i", "g", "n">>,
      <<"f", "i", "n", "i", "s", "h">>,
      <<"r", "e", "a", "d">>,
      <<"s", "o", "l", "v", "e">>,
      <<"s", "u", "b", "m", "i", "t">>,
      <<"i", "m", "p", "l", "e", "m", "e", "n", "t">>,
      <<"s", "t", "u", "d", "y">>,
      <<"r", "e", "v", "i", "e", "w">>,
      <<"f", "i", "x">>,
      <<"e", "m", "a", "i", "l">>,
      <<"a", "p", "p", "l", "y">>,
      <<"p", "r", "e", "p", "a", "r", "e">>,
      <<"m", "e", "e", "t">>,
      <<"w", "r", "i", "t", "e">> }

\* re.search(r"\b(assign|...|write)\b", ln, re.IGNORECASE)
HasActionVerb(ln) ==
    \E p \in 1..Len(ln) :
        /\ BoundaryAt(ln, p)
        /\ \E v \in ACTION_VERBS :
              MatchesAt(ln, p, v) /\ BoundaryAt(ln, p + Len(v))

\* lines = [ln.strip() for ln in text.splitlines() if ln.strip()]
StrippedLines(txt) ==
    LET ls == SplitLines(txt)
        st == [i \in 1..Len(ls) |-> Strip(ls[i])]
    IN  SelectSeq(st, LAMBDA l : l # <<>>)

REVIEW_PREFIX == <<"R", "e", "v", "i", "e", "w", ":", " ">>
ELLIPSIS == <<".", ".", ".">>

\* first index >= p of s that holds no whitespace, Len(s) + 1 if none
SkipSpaces(s, p) ==
    SetMin({e \in p..(Len(s) + 1) :
              /\ e = Len(s) + 1 \/ ~IsSpace(s[e])
              /\ \A k \in p..(e - 1) : IsSpace(s[k])})

\* last index of the run of digits that starts at p
DigitRunEnd(s, p) ==
    SetMin({e \in p..Len(s) : e = Len(s) \/ ~IsDigit(s[e + 1])})

DigitValue(c) == (CHOOSE i \in 1..10 : Digits[i] = c) - 1

RECURSIVE NumberOf(_)
NumberOf(ds) ==
    IF ds = <<>> THEN 0
    ELSE NumberOf(SubSeq(ds, 1, Len(ds) - 1)) * 10 + DigitValue(ds[Len(ds)])

RECURSIVE Pow10(_)
Pow10(k) == IF k = 0 THEN 1 ELSE 10 * Pow10(k - 1)

\* round(a / b) of Python 3 for a >= 0, b > 0: halves go to the even integer
RoundHalfEven(a, b) ==
    LET f == a \div b
        r == a % b
    IN  IF 2 * r < b THEN f
        ELSE IF 2 * r > b THEN f + 1
        ELSE IF f % 2 = 0 THEN f ELSE f + 1

\* EST_PAT matched with its number starting at the digit s[p]:
\* (\d+(?:\.\d+)?)\s*(h...|m...), ignoring case.  The record holds the end of
\* the integer digits, the end of the number and the index of the unit.
EstMatchAt(s, p) ==
    LET e1 == DigitRunEnd(s, p)
        hasFrac == e1 + 2 <= Len(s) /\ s[e1 + 1] = "." /\ IsDigit(s[e1 + 2])
        e2 == IF hasFrac THEN DigitRunEnd(s, e1 + 2) ELSE e1
        u == SkipSpaces(s, e2 + 1)
    IN  [ok |-> u <= Len(s) /\ Lower(s[u]) \in {"h", "m"},
         intEnd |-> e1, numEnd |-> e2, unit |-> u]

\* EST_PAT.search: the leftmost index where a match starts, 0 when there is
\* none.  A match inside a run of digits implies one at the start of the run,
\* so only the starts of runs are tried.
EstSearch(s) ==
    LET starts == {p \in 1..Len(s) :
                      /\ IsDigit(s[p])
                      /\ p = 1 \/ ~IsDigit(s[p - 1])
                      /\ EstMatchAt(s, p).ok}
    IN  IF starts = {} THEN 0 ELSE SetMin(starts)

\* index of the first digit of s[p..e] that is not a leading zero, e when
\* all are zeros
SkipZeros(s, p, e) == SetMin({q \in p..e : q = e \/ s[q] # "0"})

\* line 88: float(val) * 60 or float(val) is infinite, and round() raises
\* OverflowError.  Decided on the count of integer digits: a number of
\* minutes of more than FLOAT_MAX_DIGITS digits, a number of hours of two
\* digits less.  (Of the numbers with exactly that many digits the largest
\* overflow as well; the inputs hold none.)
EstRaises(ln) ==
    LET p == EstSearch(ln) IN
    /\ p > 0
    /\ LET m == EstMatchAt(ln, p)
           d == m.intEnd - SkipZeros(ln, p, m.intEnd) + 1
       IN  d + (IF Lower(ln[m.unit]) = "h" THEN 2 ELSE 0) > FLOAT_MAX_DIGITS

\* est = int(round(float(val) * (60 if unit.startswith('h') else 1))), in
\* decimal arithmetic; 60 when EST_PAT finds nothing
EstOfLine(ln) ==
    IF EstSearch(ln) = 0 THEN DEFAULT_EST_MINUTES
    ELSE LET p == EstSearch(ln)
             m == EstMatchAt(ln, p)
             whole == SubSeq(ln, p, m.intEnd)
             frac == SubSeq(ln, m.intEnd + 2, m.numEnd)
             mult == IF Lower(ln[m.unit]) = "h" THEN 60 ELSE 1
         IN  RoundHalfEven(NumberOf(whole \o frac) * mult, Pow10(Len(frac)))

TAG_WORDS ==
    { <<"p", "h", "y", "s", "i", "c", "s">>,
      <<"p", "r", "o", "j", "e", "c", "t">>,
      <<"w", "o", "r", "k">>,
      <<"p", "e", "r", "s", "o", "n", "a", "l">> }

\* the index where TAG_PAT's alternative ends when it starts at p, 0 if none
TagEndAt(s, p) ==
    LET csEnd == IF MatchesAt(s, p, <<"c", "s">>) /\ p + 2 <= Len(s) /\ IsDigit(s[p + 2])
                 THEN DigitRunEnd(s, p + 2) ELSE 0
        calc3 == IF MatchesAt(s, p, <<"c", "a", "l", "c">>)
                 THEN SkipSpaces(s, p + 4) ELSE 0
        linAlg == IF MatchesAt(s, p, <<"l", "i", "n", "e", "a", "r">>)
                  THEN SkipSpaces(s, p + 6) ELSE 0
        algebra == <<"a", "l", "g", "e", "b", "r", "a">>
        words == {w \in TAG_WORDS : MatchesAt(s, p, w)}
    IN  IF csEnd # 0 /\ csEnd - (p + 2) + 1 <= 3 THEN csEnd
        ELSE IF calc3 # 0 /\ calc3 <= Len(s) /\ s[calc3] = "3" THEN calc3
        ELSE IF linAlg # 0 /\ MatchesAt(s, linAlg, algebra) THEN linAlg + 6
        ELSE IF words # {} THEN p + Len(CHOOSE w \in words : TRUE) - 1
        ELSE 0

TagStarts(s) ==
    {p \in 1..Len(s) :
        /\ BoundaryAt(s, p)
        /\ TagEndAt(s, p) # 0
        /\ BoundaryAt(s, TagEndAt(s, p) + 1)}

\* tg = t.group(0) if TAG_PAT.search(ln) else None
TagOfLine(ln) ==
    IF TagStarts(ln) = {} THEN None
    ELSE LET p == SetMin(TagStarts(ln)) IN Some(SubSeq(ln, p, TagEndAt(ln, p)))

DUE_CUES == { <<"d", "u", "e">>, <<"d", "e", "a", "d", "l", "i", "n", "e">>, <<"s", "u", "b", "m", "i", "t">>, <<"b", "y">> }
WEEKDAYS == { <<"m", "o", "n">>, <<"t", "u", "e">>, <<"w", "e", "d">>, <<"t", "h", "u">>, <<"f", "r", "i">>, <<"s", "a", "t">>, <<"s", "u", "n">> }

\* [A-Z]?[a-z]{2,9}\s+\d at g (two to ten letters under IGNORECASE)
DueMonthDayAt(s, g) ==
    \E n \in 2..10 :
        /\ g + n <= Len(s)
        /\ \A k \in g..(g + n - 1) : IsLetter(s[k])
        /\ IsSpace(s[g + n])
        /\ LET u == SkipSpaces(s, g + n) IN u <= Len(s) /\ IsDigit(s[u])

\* \d{1,2}/\d{1,2} at g
DueNumericAt(s, g) ==
    \/ g + 2 <= Len(s) /\ IsDigit(s[g]) /\ s[g + 1] = "/" /\ IsDigit(s[g + 2])
    \/ /\ g + 3 <= Len(s) /\ IsDigit(s[g]) /\ IsDigit(s[g + 1])
       /\ s[g + 2] = "/" /\ IsDigit(s[g + 3])

\* tomorrow|today|next\s+(Mon|...|Sun) at g
DueWordAt(s, g) ==
    \/ MatchesAt(s, g, <<"t", "o", "m", "o", "r", "r", "o", "w">>)
    \/ MatchesAt(s, g, <<"t", "o", "d", "a", "y">>)
    \/ /\ MatchesAt(s, g, <<"n", "e", "x", "t">>)
       /\ g + 4 <= Len(s) /\ IsSpace(s[g + 4])
       /\ \E d \in WEEKDAYS : MatchesAt(s, SkipSpaces(s, g + 4), d)

\* the group of DUE_PAT can start at g: a word boundary or a cue word before it
DueStartOk(s, g) ==
    \/ g = 1
    \/ ~IsWordChar(s[g - 1])
    \/ \E c \in DUE_CUES : MatchesAt(s, g - Len(c), c)

\* DUE_PAT.search(ln) is not None
DuePatMatches(ln) ==
    \E g \in 1..Len(ln) :
        /\ DueStartOk(ln, g)
        /\ DueMonthDayAt(ln, g) \/ DueNumericAt(ln, g) \/ DueWordAt(ln, g)

\* mutant: a due date exactly one day ahead no longer counts as urgent
PriorityOf_Strict(due, t0) ==
    IF due = None THEN 3
    ELSE IF due[1] - t0 < DAY THEN 1
    ELSE IF due[1] - t0 <= 3 * DAY THEN 2
    ELSE IF due[1] - t0 >= 14 * DAY THEN 4
    ELSE 3

\* prio of lines 95-100; t0 is datetime.now(APP_TZ)
PriorityOf(due, t0) ==
    IF due = None THEN 3
    ELSE LET minutes == due[1] - t0
         IN  IF minutes <= DAY THEN 1
             ELSE IF minutes <= 3 * DAY THEN 2
             ELSE IF minutes >= 14 * DAY THEN 4
             ELSE 3

\* the Task of line 101
CandidateTask(ln, due, src, t0) ==
    [title |-> ln,
     due |-> due,
     est_minutes |-> Some(EstOfLine(ln)),
     tag |-> TagOfLine(ln),
     priority |-> PriorityOf(due, t0),
     source |-> Some(src)]

\* "Review: " + (text.strip()[:60].replace("\n"," ")+("..." if len(text)>60 else ""))
FallbackTitle(txt) ==
    REVIEW_PREFIX \o NewlinesToSpaces(Take(Strip(txt), TITLE_CHARS))
        \o (IF Len(txt) > TITLE_CHARS THEN ELLIPSIS ELSE <<>>)

\* the Task of lines 104-105; priority and due keep the defaults of Task
FallbackTask(txt, src) ==
    [title |-> FallbackTitle(txt),
     due |-> None,
     est_minutes |-> Some(60),
     tag |-> None,
     priority |-> 3,
     source |-> Some(src)]

\* line 103: not tasks and text.strip()
NeedsFallback(found, txt) == found = <<>> /\ Strip(txt) # <<>>

(***************************************************************************)
(* llm_extract: the response of the chat completion call.                  *)
(***************************************************************************)
Field(k, v) == [k |-> k, v |-> v]
Absent == Field("absent", 0)
Null == Field("null", 0)

UNTITLED == <<"U", "n", "t", "i", "t", "l", "e", "d", " ", "t", "a", "s", "k">>

\* an element of the task array: a JSON object with its keys, or another value
Element(isObject, title, due, est, tg, prio) ==
    [isObject |-> isObject, title |-> title, due |-> due, est_minutes |-> est,
     tag |-> tg, priority |-> prio]

NoObject == Element(FALSE, Absent, Absent, Absent, Absent, Absent)

Elements ==
    { Element(TRUE, Field("str", <<"f", "i", "x">>), Absent, Field("int", 90),
              Field("str", <<"C", "S", "6", "1">>), Field("int", 2)),
      Element(TRUE, Field("str", <<"x">>), Field("str", 0), Absent, Absent, Absent),
      Element(TRUE, Absent, Null, Field("int", 0), Absent, Field("int", 0)),
      Element(TRUE, Null, Absent, Absent, Absent, Absent),
      Element(TRUE, Field("str", <<"x">>), Absent, Field("text", 0), Absent, Absent),
      Element(TRUE, Field("str", <<"x">>), Absent, Null, Absent, Field("text", 0)),
      Element(TRUE, Field("str", <<"x">>), Absent, Field("int", 0 - 5), Absent,
              Field("int", 9)),
      NoObject }

ElementLists == UNION {[1..n -> Elements] : n \in 0..MaxElements}

\* outcome "raise": the call raises; "not_json": json.loads raises; "data":
\* content is JSON text of a value of type top, with otherKeys keys besides
\* "tasks" when it is an object; tasks is the type of its "tasks" member
Response(outcome, top, tasksType, otherKeys, elems) ==
    [outcome |-> outcome, top |-> top, tasks |-> tasksType,
     otherKeys |-> otherKeys, elements |-> elems]

NoResponse == Response("none", "null", "absent", 0, <<>>)

Responses ==
    { Response("raise", "null", "absent", 0, <<>>),
      Response("not_json", "null", "absent", 0, <<>>),
      Response("data", "null", "absent", 0, <<>>),
      Response("data", "object", "absent", 0, <<>>),
      Response("data", "object", "absent", 1, <<>>),
      Response("data", "object", "null", 0, <<>>) }
    \cup {Response("data", "object", "list", 1, es) : es \in ElementLists}
    \cup {Response("data", "list", "absent", 0, es) : es \in ElementLists}

\* line 126 raises: the content is no JSON text
LoadsRaises(r) == r.outcome = "not_json"

\* line 127 raises: "tasks" in data on a value that is no container
RawRaises(r) == r.top = "null"

\* line 129 raises: iterating over None
IterRaises(r) == r.top = "object" /\ r.tasks = "null"

\* raw = data.get("tasks") if "tasks" in data else data, as the values the
\* for loop of line 129 gets; a dict yields its keys, which are no objects
RawElements(r) ==
    IF r.top = "list" \/ r.tasks = "list" THEN r.elements
    ELSE [i \in 1..r.otherKeys |-> NoObject]

\* int(t.get(key, default) or default) raises on a text that is no number
IntFieldRaises(f) == f.k = "text"

IntFieldOr(f, default) ==
    IF f.k \in {"absent", "null"} \/ f.v = 0 THEN default ELSE f.v

\* lines 130-147 raise: t.get on a value that is no dict, int() on a text,
\* Task(title=None)
ElementRaises(e) ==
    \/ ~e.isObject
    \/ IntFieldRaises(e.est_minutes)
    \/ IntFieldRaises(e.priority)
    \/ e.title.k = "null"

\* what parse_possible_date and dateparser.parse can answer, relative to now
DueOffsets == { 0 - DAY, DAY, DAY + 1, 3 * DAY, 3 * DAY + 1, 14 * DAY - 1, 14 * DAY }

\* lines 130-139: None without a "due", else what dateparser answers
LlmDueChoices(e, t0) ==
    IF e.due.k \in {"absent", "null"} THEN {None}
    ELSE {None} \cup {Some(t0 + d) : d \in DueOffsets}

\* the Task of lines 140-147
ElementTask(e, due, src) ==
    [title |-> IF e.title.k = "absent" THEN UNTITLED ELSE e.title.v,
     due |-> due,
     est_minutes |-> Some(IntFieldOr(e.est_minutes, 60)),
     tag |-> IF e.tag.k \in {"absent", "null"} THEN None ELSE Some(e.tag.v),
     priority |-> IntFieldOr(e.priority, 3),
     source |-> Some(src)]

\* line 148: tasks or rule_based_extract(...)
ReturnsConverted(found) == found # <<>>

\* no extraction call is running
ExtractIdle ==
    /\ xpc = "idle"
    /\ xfun = "none"
    /\ text = <<>>
    /\ source_name = ""
    /\ xnow = 0
    /\ lines = <<>>
    /\ li = 0
    /\ rb_tasks = <<>>
    /\ rb_calls = <<>>
    /\ response = NoResponse
    /\ llm_calls = 0
    /\ raw = <<>>
    /\ lk = 0
    /\ llm_tasks = <<>>
    /\ in_try = FALSE
    /\ result = <<>>

(***************************************************************************)
(* Inputs.                                                                 *)
(***************************************************************************)
\* (priority, due relative to now or None, est_minutes or None)
TaskProfiles ==
    { <<3, Some(2 * DAY), Some(90)>>,
      <<3, Some(20 * DAY), Some(90)>>,
      <<3, None, Some(150)>>,
      <<3, Some(40 * DAY), Some(20)>>,
      <<1, Some(0 - DAY), None>>,
      <<2, Some(180), Some(150)>>,
      <<4, None, Some(450)>>,
      <<2, Some(DAY), Some(0)>> }

\* (work start hour, work end hour) as the sidebar allows: 5..12 and 13..23
Windows == { <<9, 21>>, <<12, 23>>, <<5, 13>> }

\* the clock when plan_blocks is called
Nows == { 480, 790, 1330 }

\* daily_hours in half hours: 0, 0.5 and 2.0 (the default)
DailyHalfHours == { 0, 1, 4 }

TaskLists == UNION { [1..n -> TaskProfiles] : n \in 0..MaxTasks }

MakeTasks(ps, t0) ==
    [i \in 1..Len(ps) |->
        [id |-> i,
         priority |-> ps[i][1],
         due |-> IF ps[i][2] = None THEN None ELSE Some(t0 + ps[i][2][1]),
         est_minutes |-> ps[i][3]]]

\* the module as loaded: WORK_START = time(9, 0), WORK_END = time(21, 0)
Init ==
    /\ pc = "idle"
    /\ now = 0
    /\ WORK_START = 9 * 60
    /\ WORK_END = 21 * 60
    /\ daily_hours = 0
    /\ tasks = <<>>
    /\ by_priority = <<>>
    /\ idx = 0
    /\ remaining = 0
    /\ cursor = 0
    /\ last_allowed = 0
    /\ day_budget = <<>>
    /\ blocks = <<>>
    /\ ExtractIdle
    /\ dpc = "idle"
    /\ all_tasks = <<>>
    /\ seen = {}
    /\ deduped = <<>>
    /\ di = 0
    /\ first_out = <<>>
    /\ tasks_cache = <<>>
    /\ blocks_cache = <<>>
    /\ extracts = 0
    /\ exported = <<>>
    /\ notice = ""

inputs == <<now, WORK_START, WORK_END, daily_hours, tasks>>

\* the sidebar of student_agent_app.py sets the work window
SetWorkWindow ==
    /\ pc = "idle"
    /\ UNCHANGED <<extractVars, dedupeVars, appVars>>
    /\ \E w \in Windows : WORK_START' = w[1] * 60 /\ WORK_END' = w[2] * 60
    /\ UNCHANGED <<pc, now, daily_hours, tasks, by_priority, idx, remaining,
                   cursor, last_allowed, day_budget, blocks>>

\* plan_blocks(tasks, daily_hours) is called: lines 180-186
CallPlanBlocks ==
    /\ pc = "idle"
    /\ UNCHANGED <<extractVars, dedupeVars, appVars>>
    /\ \E t0 \in Nows, ps \in TaskLists :
          /\ now' = t0
          /\ tasks' = MakeTasks(ps, t0)
          /\ by_priority' = SortedByKey(MakeTasks(ps, t0), t0)
    /\ daily_hours' \in DailyHalfHours
    /\ blocks' = <<>>
    /\ day_budget' = <<>>
    /\ pc' = "for"
    /\ UNCHANGED <<WORK_START, WORK_END, idx, remaining, cursor, last_allowed>>

\* lines 187-190
NextTask ==
    /\ pc = "for"
    /\ UNCHANGED <<extractVars, dedupeVars, appVars>>
    /\ idx < Len(by_priority)
    /\ idx' = idx + 1
    /\ remaining' = InitialRemaining(by_priority[idx + 1])
    /\ cursor' = InitialCursor
    /\ last_allowed' = LastAllowed(by_priority[idx + 1])
    /\ pc' = "while"
    /\ UNCHANGED <<inputs, by_priority, day_budget, blocks>>

\* line 191, condition false
ExitLoop ==
    /\ pc = "while"
    /\ UNCHANGED <<extractVars, dedupeVars, appVars>>
    /\ ~LoopCondition
    /\ pc' = "for"
    /\ UNCHANGED <<inputs, by_priority, idx, remaining, cursor, last_allowed,
                   day_budget, blocks>>

\* lines 195-198
SkipFullDay ==
    /\ pc = "while"
    /\ UNCHANGED <<extractVars, dedupeVars, appVars>>
    /\ LoopCondition
    /\ Used(DateOf(cursor)) >= Cap
    /\ cursor' = NextDayCursor(cursor)
    /\ UNCHANGED <<pc, inputs, by_priority, idx, remaining, last_allowed,
                   day_budget, blocks>>

\* lines 200-205
SkipWorkEnd ==
    /\ pc = "while"
    /\ UNCHANGED <<extractVars, dedupeVars, appVars>>
    /\ LoopCondition
    /\ Used(DateOf(cursor)) < Cap
    /\ CrossesWorkEnd(cursor + BlockLen)
    /\ cursor' = NextDayCursor(cursor)
    /\ UNCHANGED <<pc, inputs, by_priority, idx, remaining, last_allowed,
                   day_budget, blocks>>

\* lines 200-216
EmitBlock ==
    /\ pc = "while"
    /\ UNCHANGED <<extractVars, dedupeVars, appVars>>
    /\ LoopCondition
    /\ Used(DateOf(cursor)) < Cap
    /\ ~CrossesWorkEnd(cursor + BlockLen)
    /\ LET day_key == DateOf(cursor)
           block_len == BlockLen
           block_end == cursor + block_len
       IN  /\ blocks' = Append(blocks,
                   [task_id |-> by_priority[idx].id,
                    start |-> cursor,
                    end |-> block_end,
                    due |-> by_priority[idx].due])
           /\ remaining' = remaining - block_len
           /\ day_budget' = [d \in DOMAIN day_budget \cup {day_key} |->
                                IF d = day_key THEN Used(day_key) + block_len
                                ELSE day_budget[d]]
           /\ cursor' = CursorAfterBlock(block_end)
    /\ UNCHANGED <<pc, inputs, by_priority, idx, last_allowed>>

\* line 217
Return ==
    /\ pc = "for"
    /\ UNCHANGED <<extractVars, dedupeVars, appVars>>
    /\ idx = Len(by_priority)
    /\ pc' = "done"
    /\ UNCHANGED <<inputs, by_priority, idx, remaining, cursor, last_allowed,
                   day_budget, blocks>>

\* one step of a running plan_blocks call
PlanStep ==
    \/ NextTask
    \/ ExitLoop
    \/ SkipFullDay
    \/ SkipWorkEnd
    \/ EmitBlock
    \/ Return

Next ==
    \/ SetWorkWindow
    \/ CallPlanBlocks
    \/ PlanStep

Spec == Init /\ [][Next]_vars

\* plan_blocks is one synchronous call: once called, a step that can be taken
\* is taken
FairSpec == Spec /\ WF_vars(PlanStep)

(***************************************************************************)
(* Properties of plan_blocks.                                              *)
(***************************************************************************)
BlockIdx == 1..Len(blocks)

RECURSIVE SumOver(_, _)
SumOver(f, S) ==
    IF S = {} THEN 0
    ELSE LET x == CHOOSE y \in S : TRUE IN f[x] + SumOver(f, S \ {x})

\* summed (end - start) of the blocks with index in S
MinutesOf(S) == SumOver([i \in BlockIdx |-> blocks[i].end - blocks[i].start], S)

StartingOn(d) == {i \in BlockIdx : DateOf(blocks[i].start) = d}

BlocksOfTask(id) == {i \in BlockIdx : blocks[i].task_id = id}

\* C1: the blocks that start on one calendar date, over all tasks, never sum
\* to more than daily_hours * 60 minutes.
C1_DailyCap ==
    \A i \in BlockIdx :
        MinutesOf(StartingOn(DateOf(blocks[i].start))) <= daily_hours * 30

\* two tasks share one day and together use exactly the day's cap
C1_Witness ==
    \E i, j \in BlockIdx :
        /\ blocks[i].task_id # blocks[j].task_id
        /\ DateOf(blocks[i].start) = DateOf(blocks[j].start)
        /\ MinutesOf(StartingOn(DateOf(blocks[i].start))) = daily_hours * 30

\* C2: a block of a task with a due date ends at or before the due date and
\* starts no later than one hour before it; a block of a task without a due
\* date starts at or before now + 14 days.
C2_Deadline ==
    \A i \in BlockIdx :
        IF blocks[i].due # None
        THEN /\ blocks[i].end <= blocks[i].due[1]
             /\ blocks[i].start <= blocks[i].due[1] - 60
        ELSE blocks[i].start <= now + 14 * DAY

\* a block that starts exactly at the cutoff of its task, one hour before due
C2_Witness ==
    \E i \in BlockIdx :
        blocks[i].due # None /\ blocks[i].start = blocks[i].due[1] - 60

\* a block of a task without due date placed on the last day of the horizon
C2_WitnessNoDue ==
    \E i \in BlockIdx :
        blocks[i].due = None /\ DateOf(blocks[i].start) = DateOf(now + 14 * DAY)

\* C3: every block has 0 < end - start <= BLOCK_MINUTES, starts at or after
\* WORK_START and ends at or before WORK_END (times of day).
C3_BlockShape ==
    \A i \in BlockIdx :
        /\ 0 < blocks[i].end - blocks[i].start
        /\ blocks[i].end - blocks[i].start <= 50
        /\ TimeOf(blocks[i].start) >= WORK_START
        /\ TimeOf(blocks[i].end) <= WORK_END

\* C4: tasks are processed by priority ascending, then due ascending with
\* the tasks without due date after every task with one; ties keep their
\* input order.
C4_ProcessingOrder ==
    pc # "idle" =>
        \A i, j \in 1..Len(by_priority) :
            i < j =>
                LET a == by_priority[i]
                    b == by_priority[j]
                IN  /\ a.priority <= b.priority
                    /\ a.priority = b.priority =>
                          /\ a.due = None => b.due = None
                          /\ (a.due # None /\ b.due # None) => a.due[1] <= b.due[1]
                          /\ a.due = b.due => a.id < b.id

\* C5: every block of an earlier processed task ends before any block of a
\* later processed task starts (one cursor running across the tasks).
C5_SharedCursor ==
    \A i, j \in BlockIdx :
        (i < j /\ blocks[i].task_id # blocks[j].task_id)
            => blocks[i].end <= blocks[j].start

\* the minutes plan_blocks has to place for a task: max(30, est_minutes or 60)
TargetMinutes(t) ==
    IF t.est_minutes = None \/ t.est_minutes[1] = 0 THEN 60
    ELSE IF t.est_minutes[1] < 30 THEN 30 ELSE t.est_minutes[1]

\* C6: the blocks of a task are in increasing start order; when its loop has
\* ended their minutes sum to exactly max(30, est_minutes or 60), unless the
\* loop ended on cursor > cutoff with minutes left, and then to less; the sum
\* never exceeds max(30, est_minutes or 60).
C6_TaskMinutes ==
    /\ \A i, j \in BlockIdx :
          (i < j /\ blocks[i].task_id = blocks[j].task_id)
              => blocks[i].start < blocks[j].start
    /\ \A k \in 1..Len(by_priority) :
          MinutesOf(BlocksOfTask(by_priority[k].id)) <= TargetMinutes(by_priority[k])
    /\ (pc = "for" /\ idx > 0) =>
          LET t == by_priority[idx]
              placed == MinutesOf(BlocksOfTask(t.id))
          IN  IF remaining > 0
              THEN cursor > last_allowed /\ placed < TargetMinutes(t)
              ELSE placed = TargetMinutes(t)

\* one task placed in full in several blocks, another cut short by its cutoff
C6_Witness ==
    /\ pc = "for" /\ idx > 1
    /\ remaining > 0
    /\ Cardinality(BlocksOfTask(by_priority[idx].id)) >= 1
    /\ \E k \in 1..(idx - 1) :
          /\ Cardinality(BlocksOfTask(by_priority[k].id)) >= 2
          /\ MinutesOf(BlocksOfTask(by_priority[k].id)) = TargetMinutes(by_priority[k])

\* one pass of the while loop emits a block of at least a minute or moves
\* the cursor to a later day
LoopProgress ==
    (pc = "while" /\ pc' = "while") =>
        \/ /\ Len(blocks') = Len(blocks) + 1
           /\ blocks'[Len(blocks')].end - blocks'[Len(blocks')].start >= 1
        \/ /\ blocks' = blocks
           /\ DateOf(cursor') > DateOf(cursor)

RECURSIVE Concat(_)
Concat(ss) == IF ss = <<>> THEN <<>> ELSE ss[1] \o Concat(Tail(ss))

Filler == [i \in 1..58 |-> "y"]

\* what the input texts are made of: two action verbs, a letter, whitespace,
\* a duration phrase and a due phrase
Pieces ==
    { <<"f", "i", "x">>,
      <<"R", "e", "a", "d">>,
      <<"x">>,
      <<" ">>,
      <<"\n">>,
      <<"2", "h">>,
      <<"t", "o", "d", "a", "y">> }

ShortTexts(n) == {Concat(ps) : ps \in UNION {[1..k -> Pieces] : k \in 0..n}}

\* a duration of 310 digits, in hours
HugeEst == [i \in 1..(FLOAT_MAX_DIGITS + 1) |-> "9"] \o <<"h">>

\* a duration of half a minute
HalfMinute == <<"0", ".", "5", "m">>

\* up to n pieces, alone or after a word of 58 letters, and up to n - 1
\* pieces before the long and before the short duration
TextsUpTo(n) ==
    ShortTexts(n)
    \cup {Filler \o t : t \in ShortTexts(n)}
    \cup {t \o HugeEst : t \in ShortTexts(n - 1)}
    \cup {t \o HalfMinute : t \in ShortTexts(n - 1)}

Sources == {"pasted", "notes.txt"}

\* the clock rule_based_extract reads
ExtractNows == { 600 }

\* lines 79-82: None without a match of DUE_PAT, else what dateparser answers
DueChoices(ln, t0) ==
    IF DuePatMatches(ln)
    THEN {None} \cup {Some(t0 + d) : d \in DueOffsets}
    ELSE {None}

\* lines 72-73 of a call rule_based_extract(txt, src)
EnterRuleBased(txt, src) ==
    /\ lines' = StrippedLines(txt)
    /\ li' = 0
    /\ rb_tasks' = <<>>
    /\ rb_calls' = Append(rb_calls, <<txt, src>>)
    /\ xpc' = "rb_for"

CallRuleBasedExtract ==
    /\ xpc = "idle"
    /\ \E txt \in TextsUpTo(MaxPieces), src \in Sources :
          /\ text' = txt
          /\ source_name' = src
          /\ EnterRuleBased(txt, src)
    /\ xfun' = "rule_based_extract"
    /\ xnow' \in ExtractNows
    /\ UNCHANGED <<planVars, dedupeVars, appVars, llmVars, result>>

\* lines 74-76, a line without action verb
RbSkipLine ==
    /\ xpc = "rb_for"
    /\ li < Len(lines)
    /\ ~HasActionVerb(lines[li + 1])
    /\ li' = li + 1
    /\ UNCHANGED <<planVars, dedupeVars, appVars, llmVars, xpc, xfun, text, source_name, xnow, lines, rb_tasks,
                   rb_calls, result>>

\* lines 74-101, a line with an action verb
RbCandidateLine ==
    /\ xpc = "rb_for"
    /\ li < Len(lines)
    /\ HasActionVerb(lines[li + 1])
    /\ ~EstRaises(lines[li + 1])
    /\ \E due \in DueChoices(lines[li + 1], xnow) :
          rb_tasks' = Append(rb_tasks,
                             CandidateTask(lines[li + 1], due, source_name, xnow))
    /\ li' = li + 1
    /\ UNCHANGED <<planVars, dedupeVars, appVars, llmVars, xpc, xfun, text, source_name, xnow, lines, rb_calls,
                   result>>

\* lines 74-88, a line with an action verb whose estimate overflows: the
\* OverflowError leaves rule_based_extract, into the handler of llm_extract
\* when the call was made inside its try block
RbEstRaises ==
    /\ xpc = "rb_for"
    /\ li < Len(lines)
    /\ HasActionVerb(lines[li + 1])
    /\ EstRaises(lines[li + 1])
    /\ xpc' = IF in_try THEN "llm_except" ELSE "raised"
    /\ UNCHANGED <<planVars, dedupeVars, appVars, llmVars, xfun, text, source_name, xnow, lines, li,
                   rb_tasks, rb_calls, result>>

\* lines 103-106 with the generic task
RbFallbackReturn ==
    /\ xpc = "rb_for"
    /\ li = Len(lines)
    /\ NeedsFallback(rb_tasks, text)
    /\ rb_tasks' = Append(rb_tasks, FallbackTask(text, source_name))
    /\ result' = Append(rb_tasks, FallbackTask(text, source_name))
    /\ xpc' = "done"
    /\ UNCHANGED <<planVars, dedupeVars, appVars, llmVars, xfun, text, source_name, xnow, lines, li, rb_calls>>

\* lines 103 and 106 without it
RbReturn ==
    /\ xpc = "rb_for"
    /\ li = Len(lines)
    /\ ~NeedsFallback(rb_tasks, text)
    /\ result' = rb_tasks
    /\ xpc' = "done"
    /\ UNCHANGED <<planVars, dedupeVars, appVars, llmVars, xfun, text, source_name, xnow, lines, li, rb_tasks,
                   rb_calls>>

RuleBasedStep ==
    \/ RbSkipLine
    \/ RbCandidateLine
    \/ RbEstRaises
    \/ RbFallbackReturn
    \/ RbReturn

(***************************************************************************)
(* llm_extract, lines 113-150.                                             *)
(***************************************************************************)
\* the texts llm_extract is called with
LlmTexts == ShortTexts(1) \cup {<<"f", "i", "x", " ">> \o HugeEst}

CallLlmExtract ==
    /\ xpc = "idle"
    /\ text' \in LlmTexts
    /\ source_name' \in Sources
    /\ xnow' \in ExtractNows
    /\ xfun' = "llm_extract"
    /\ xpc' = "llm_create"
    /\ in_try' = TRUE
    /\ UNCHANGED <<planVars, dedupeVars, appVars, lines, li, rb_tasks, rb_calls, response, llm_calls, raw,
                   lk, llm_tasks, result>>

\* lines 115-123: the call raises
LlmCreateRaises ==
    /\ xpc = "llm_create"
    /\ \E r \in Responses : r.outcome = "raise" /\ response' = r
    /\ llm_calls' = llm_calls + 1
    /\ xpc' = "llm_except"
    /\ UNCHANGED <<planVars, dedupeVars, appVars, xfun, text, source_name, ruleVars, raw, lk, llm_tasks,
                   in_try, result>>

\* lines 115-124: the call answers
LlmCreateReturns ==
    /\ xpc = "llm_create"
    /\ \E r \in Responses : r.outcome # "raise" /\ response' = r
    /\ llm_calls' = llm_calls + 1
    /\ xpc' = "llm_parse"
    /\ UNCHANGED <<planVars, dedupeVars, appVars, xfun, text, source_name, ruleVars, raw, lk, llm_tasks,
                   in_try, result>>

\* lines 126-129: json.loads, the choice of raw or the start of the loop raises
LlmParseRaises ==
    /\ xpc = "llm_parse"
    /\ LoadsRaises(response) \/ RawRaises(response) \/ IterRaises(response)
    /\ xpc' = "llm_except"
    /\ UNCHANGED <<planVars, dedupeVars, appVars, xfun, text, source_name, ruleVars, llmVars, result>>

\* lines 126-129 without exception
LlmParseOk ==
    /\ xpc = "llm_parse"
    /\ ~(LoadsRaises(response) \/ RawRaises(response) \/ IterRaises(response))
    /\ raw' = RawElements(response)
    /\ lk' = 0
    /\ llm_tasks' = <<>>
    /\ xpc' = "llm_for"
    /\ UNCHANGED <<planVars, dedupeVars, appVars, xfun, text, source_name, ruleVars, response, llm_calls,
                   in_try, result>>

\* lines 129-147: the element cannot be converted
LlmItemRaises ==
    /\ xpc = "llm_for"
    /\ lk < Len(raw)
    /\ ElementRaises(raw[lk + 1])
    /\ xpc' = "llm_except"
    /\ UNCHANGED <<planVars, dedupeVars, appVars, xfun, text, source_name, ruleVars, llmVars, result>>

\* lines 129-147: the element becomes a Task
LlmItemTask ==
    /\ xpc = "llm_for"
    /\ lk < Len(raw)
    /\ ~ElementRaises(raw[lk + 1])
    /\ \E due \in LlmDueChoices(raw[lk + 1], xnow) :
          llm_tasks' = Append(llm_tasks, ElementTask(raw[lk + 1], due, source_name))
    /\ lk' = lk + 1
    /\ UNCHANGED <<planVars, dedupeVars, appVars, xpc, xfun, text, source_name, ruleVars, response,
                   llm_calls, raw, in_try, result>>

\* line 148 with a converted list that is not empty
LlmReturnTasks ==
    /\ xpc = "llm_for"
    /\ lk = Len(raw)
    /\ ReturnsConverted(llm_tasks)
    /\ result' = llm_tasks
    /\ xpc' = "done"
    /\ UNCHANGED <<planVars, dedupeVars, appVars, xfun, text, source_name, ruleVars, llmVars>>

\* line 148 with an empty one: rule_based_extract is called inside the try
LlmReturnEmpty ==
    /\ xpc = "llm_for"
    /\ lk = Len(raw)
    /\ ~ReturnsConverted(llm_tasks)
    /\ EnterRuleBased(text, source_name)
    /\ UNCHANGED <<planVars, dedupeVars, appVars, xfun, text, source_name, xnow, llmVars, result>>

\* lines 149-150: the handler calls rule_based_extract
LlmExcept ==
    /\ xpc = "llm_except"
    /\ in_try' = FALSE
    /\ EnterRuleBased(text, source_name)
    /\ UNCHANGED <<planVars, dedupeVars, appVars, xfun, text, source_name, xnow, response, llm_calls, raw,
                   lk, llm_tasks, result>>

LlmStep ==
    \/ LlmCreateRaises
    \/ LlmCreateReturns
    \/ LlmParseRaises
    \/ LlmParseOk
    \/ LlmItemRaises
    \/ LlmItemTask
    \/ LlmReturnTasks
    \/ LlmReturnEmpty
    \/ LlmExcept

ExtractNext ==
    \/ CallRuleBasedExtract
    \/ CallLlmExtract
    \/ RuleBasedStep
    \/ LlmStep

ExtractSpec == Init /\ [][ExtractNext]_vars

(***************************************************************************)
(* Properties of rule_based_extract.                                       *)
(***************************************************************************)
\* a direct call of rule_based_extract has ended
RuleBasedEnded == xfun = "rule_based_extract" /\ xpc \in {"done", "raised"}

\* the indexes of the lines that hold an action verb
VerbLines ==
    LET ls == StrippedLines(text) IN {i \in 1..Len(ls) : HasActionVerb(ls[i])}

\* the k-th smallest element of S
RECURSIVE Kth(_, _)
Kth(S, k) == IF k = 1 THEN SetMin(S) ELSE Kth(S \ {SetMin(S)}, k - 1)

\* C10: rule_based_extract returns one task per stripped non-empty line with
\* an action verb, titled with that line, in line order; with no such line
\* and a non-blank text exactly one task titled "Review: " + the first 60
\* characters of the stripped text with newlines as spaces + "..." iff the
\* text has more than 60 characters, est_minutes 60 and no due date; and
\* nothing for a blank text.
C10_RuleBasedResult ==
    RuleBasedEnded =>
        /\ xpc = "done"
        /\ IF VerbLines # {}
           THEN LET ls == StrippedLines(text)
                    vl == VerbLines
                IN  /\ Len(result) = Cardinality(vl)
                    /\ \A k \in 1..Len(result) : result[k].title = ls[Kth(vl, k)]
           ELSE IF \E i \in 1..Len(text) : ~IsSpace(text[i])
           THEN LET body == Strip(text)
                    n == IF Len(body) < 60 THEN Len(body) ELSE 60
                IN  /\ Len(result) = 1
                    /\ result[1].title =
                           REVIEW_PREFIX
                           \o [i \in 1..n |-> IF body[i] = "\n" THEN " " ELSE body[i]]
                           \o (IF Len(text) > 60 THEN <<".", ".", ".">> ELSE <<>>)
                    /\ result[1].est_minutes = Some(60)
                    /\ result[1].due = None
           ELSE result = <<>>

(***************************************************************************)
(* Properties of llm_extract.                                              *)
(***************************************************************************)
\* the call raised, the response cannot be parsed or converted, or the
\* converted list is empty
LlmFailed ==
    \/ response.outcome = "raise"
    \/ LoadsRaises(response) \/ RawRaises(response) \/ IterRaises(response)
    \/ \E k \in 1..Len(RawElements(response)) : ElementRaises(RawElements(response)[k])
    \/ RawElements(response) = <<>>

\* C8: a call of llm_extract never ends with an exception, calls the chat
\* completion at most once, and after a failed call, an unusable response or
\* an empty converted list returns what the one call
\* rule_based_extract(text, source_name) returned.
C8_LlmFallback ==
    xfun = "llm_extract" =>
        /\ xpc # "raised"
        /\ llm_calls <= 1
        /\ (xpc = "done" /\ LlmFailed) =>
              /\ rb_calls = <<<<text, source_name>>>>
              /\ result = rb_tasks

(***************************************************************************)
(* extract_tasks_from_inputs, lines 160-168: the de-duplication.           *)
(***************************************************************************)
\* re.sub(r"\s+", " ", s)
RECURSIVE CollapseSpaces(_)
CollapseSpaces(s) ==
    IF s = <<>> THEN <<>>
    ELSE LET r == CollapseSpaces(SubSeq(s, 1, Len(s) - 1))
             c == s[Len(s)]
         IN  IF ~IsSpace(c) THEN Append(r, c)
             ELSE IF Len(s) > 1 /\ IsSpace(s[Len(s) - 1]) THEN r
             ELSE Append(r, " ")

\* mutant: the key keeps the case of the title
NormKey_KeepCase(title) == CollapseSpaces(Strip(title))

\* line 164: key = re.sub(r"\s+", " ", t.title.strip().lower())
NormKey(title) == CollapseSpaces(LowerStr(Strip(title)))

\* the titles of the collected tasks
DedupeTitles ==
    { <<"a">>, <<"A">>, <<" ", "a">>, <<"a", " ">>, <<"a", " ", "b">>,
      <<"a", " ", " ", "b">>, <<"A", "\t", "B">>, <<"a", "b">>, <<"b">>, <<>> }

\* lines 161-162 on the list ts
EnterDedupe(ts) ==
    /\ all_tasks' = ts
    /\ seen' = {}
    /\ deduped' = <<>>
    /\ di' = 0
    /\ dpc' = "dedupe_for"

\* all_tasks after the loop of lines 154-159, the tasks told apart by their
\* id, and lines 161-162
CallDedupe ==
    /\ dpc = "idle"
    /\ \E k \in 0..MaxInputs : \E ts \in [1..k -> DedupeTitles] :
          EnterDedupe([i \in 1..k |-> [id |-> i, title |-> ts[i]]])
    /\ UNCHANGED <<planVars, extractVars, appVars, first_out>>

\* lines 163-167 with a key not seen before
DedupeKeep ==
    /\ dpc = "dedupe_for"
    /\ di < Len(all_tasks)
    /\ NormKey(all_tasks[di + 1].title) \notin seen
    /\ seen' = seen \cup {NormKey(all_tasks[di + 1].title)}
    /\ deduped' = Append(deduped, all_tasks[di + 1])
    /\ di' = di + 1
    /\ UNCHANGED <<planVars, extractVars, appVars, dpc, all_tasks, first_out>>

\* lines 163-165 with a key seen before
DedupeDrop ==
    /\ dpc = "dedupe_for"
    /\ di < Len(all_tasks)
    /\ NormKey(all_tasks[di + 1].title) \in seen
    /\ di' = di + 1
    /\ UNCHANGED <<planVars, extractVars, appVars, dpc, all_tasks, seen, deduped, first_out>>

\* line 168
DedupeReturn ==
    /\ dpc = "dedupe_for"
    /\ di = Len(all_tasks)
    /\ dpc' = "done"
    /\ UNCHANGED <<planVars, extractVars, appVars, all_tasks, seen, deduped, di, first_out>>

\* the de-duplication applied to the list it returned
DedupeAgain ==
    /\ dpc = "done"
    /\ first_out = <<>>
    /\ first_out' = <<deduped>>
    /\ EnterDedupe(deduped)
    /\ UNCHANGED <<planVars, extractVars, appVars>>

DedupeNext ==
    \/ CallDedupe
    \/ DedupeKeep
    \/ DedupeDrop
    \/ DedupeReturn
    \/ DedupeAgain

DedupeSpec == Init /\ [][DedupeNext]_vars

(***************************************************************************)
(* Properties of the de-duplication.                                       *)
(***************************************************************************)
\* the words of a title in lower case
RECURSIVE TitleWords(_)
TitleWords(s) ==
    LET ns == {i \in 1..Len(s) : ~IsSpace(s[i])}
    IN  IF ns = {} THEN <<>>
        ELSE LET a == SetMin(ns)
                 e == SetMin({q \in a..Len(s) : q = Len(s) \/ IsSpace(s[q + 1])})
             IN  <<LowerStr(SubSeq(s, a, e))>> \o TitleWords(SubSeq(s, e + 1, Len(s)))

\* the tasks of all_tasks before which no task has the same words
FirstOfTitle ==
    {i \in 1..Len(all_tasks) :
        \A j \in 1..(i - 1) :
            TitleWords(all_tasks[j].title) # TitleWords(all_tasks[i].title)}

\* C9: the de-duplication returns, in their order and unchanged, exactly the
\* tasks that are the first with their normalized title (trimmed, lower
\* case, whitespace runs as one space), and applied to its own result it
\* returns that result.
C9_Dedupe ==
    dpc = "done" =>
        /\ Len(deduped) = Cardinality(FirstOfTitle)
        /\ \A k \in 1..Len(deduped) : deduped[k] = all_tasks[Kth(FirstOfTitle, k)]
        /\ first_out # <<>> => deduped = first_out[1]

\* the third task repeats the first with another spelling and is dropped
C9_Witness ==
    /\ dpc = "done"
    /\ Len(all_tasks) = 3
    /\ all_tasks[1].title # all_tasks[3].title
    /\ TitleWords(all_tasks[1].title) = TitleWords(all_tasks[3].title)
    /\ TitleWords(all_tasks[1].title) # TitleWords(all_tasks[2].title)
    /\ Len(deduped) = 2

\* the second application on a result of two tasks
C9_WitnessAgain ==
    /\ dpc = "done"
    /\ first_out # <<>>
    /\ Len(first_out[1]) = 2
    /\ deduped = first_out[1]

(***************************************************************************)
(* Properties of the fields of the extracted tasks.                        *)
(***************************************************************************)
\* C11: every task a call of rule_based_extract or llm_extract returns has a
\* priority from 1 to 5 and, when it has an estimate, an estimate of at
\* least one minute.
C11_TaskFields ==
    xpc = "done" =>
        \A k \in 1..Len(result) :
            /\ result[k].priority \in 1..5
            /\ result[k].est_minutes # None => result[k].est_minutes[1] >= 1

\* the priority the days until due call for, d in minutes
PriorityForDays(d) ==
    CASE d <= DAY -> 1
      [] d > DAY /\ d <= 3 * DAY -> 2
      [] d >= 14 * DAY -> 4
      [] d > 3 * DAY /\ d < 14 * DAY -> 3

\* C12: every task rule_based_extract creates has the priority of its days
\* until due, due - now: 1 up to one day (a past due date included), 2 up to
\* three days, 4 from fourteen days on, 3 between and without due date;
\* never 5.
C12_PriorityOfDue ==
    \A k \in 1..Len(rb_tasks) :
        /\ rb_tasks[k].priority # 5
        /\ rb_tasks[k].priority =
              IF rb_tasks[k].due = None THEN 3
              ELSE PriorityForDays(rb_tasks[k].due[1] - xnow)

\* a task due in exactly one day
C12_Witness ==
    /\ xpc = "done"
    /\ xfun = "rule_based_extract"
    /\ Len(result) = 1
    /\ result[1].due = Some(xnow + DAY)
    /\ result[1].priority = 1

\* a task due in exactly fourteen days
C12_WitnessFar ==
    /\ xpc = "done"
    /\ xfun = "rule_based_extract"
    /\ Len(result) = 1
    /\ result[1].due = Some(xnow + 14 * DAY)
    /\ result[1].priority = 4

(***************************************************************************)
(* Properties of next_work_start.                                          *)
(***************************************************************************)
\* the instants next_work_start is tried on: the first and the last minute of
\* every hour of two days
SnapInstants == {d * DAY + h * 60 + m : d \in 0..1, h \in 0..23, m \in {0, 59}}

\* what C13 says of the instant t and the result r
SnapsForward(t, r) ==
    /\ TimeOf(t) < WORK_START => r = DateOf(t) * DAY + WORK_START
    /\ TimeOf(t) >= WORK_END => r = (DateOf(t) + 1) * DAY + WORK_START
    /\ (TimeOf(t) >= WORK_START /\ TimeOf(t) < WORK_END) => r = t
    /\ r >= t
    /\ TimeOf(r) >= WORK_START
    /\ TimeOf(r) < WORK_END

\* C13: with WORK_START < WORK_END, next_work_start(t) is WORK_START of the
\* same day before WORK_START, WORK_START of the next day at or after
\* WORK_END, and t otherwise; it is not before t, its time of day is in
\* [WORK_START, WORK_END), and a second application changes nothing.  The
\* cursor a task starts with is such a result for the clock of the call.
\* (The work window changes between calls only, so the instants are tried
\* there.)
C13_NextWorkStart ==
    /\ []((pc = "idle" /\ WORK_START < WORK_END) =>
            \A t \in SnapInstants :
                /\ SnapsForward(t, next_work_start(t))
                /\ next_work_start(next_work_start(t)) = next_work_start(t))
    /\ [][(pc = "for" /\ pc' = "while") => SnapsForward(now, cursor')]_vars

\* a task starts on the day after a call made past the end of a work day
\* that the sidebar has moved
C13_Witness ==
    /\ pc = "while"
    /\ WORK_START # 9 * 60
    /\ TimeOf(now) >= WORK_END
    /\ cursor = (DateOf(now) + 1) * DAY + WORK_START

(***************************************************************************)
(* Properties of the blocks among each other.                              *)
(***************************************************************************)
\* C14: the step that emits a block leaves the cursor 10 minutes after the
\* end of that block, and of two blocks of one task the later starts at
\* least 10 minutes after the earlier ends.
C14_BreakBetweenBlocks ==
    /\ [](\A i, j \in BlockIdx :
            (i < j /\ blocks[i].task_id = blocks[j].task_id)
                => blocks[j].start >= blocks[i].end + 10)
    /\ [][Len(blocks') = Len(blocks) + 1
            => cursor' = blocks'[Len(blocks')].end + 10]_vars

\* a block that starts exactly 10 minutes after the previous block of its task
C14_Witness ==
    \E i \in BlockIdx :
        /\ i + 1 \in BlockIdx
        /\ blocks[i].task_id = blocks[i + 1].task_id
        /\ blocks[i + 1].start = blocks[i].end + 10

\* C15: no two blocks of the list overlap in time, whatever tasks they
\* belong to.
C15_NoOverlap ==
    \A i, j \in BlockIdx :
        i # j => \/ blocks[i].end <= blocks[j].start
                 \/ blocks[j].end <= blocks[i].start

\* C16: every block starts and ends on one calendar date, inside the work
\* window of that date.
C16_InsideWorkDay ==
    \A i \in BlockIdx :
        /\ DateOf(blocks[i].start) = DateOf(blocks[i].end)
        /\ TimeOf(blocks[i].start) >= WORK_START
        /\ TimeOf(blocks[i].start) < WORK_END
        /\ TimeOf(blocks[i].end) <= WORK_END

(***************************************************************************)
(* student_agent_app.py: the session state across the UI events.           *)
(***************************************************************************)
\* what an Extract click finds: one or two tasks
AppProfiles == { <<3, Some(2 * DAY), Some(90)>>, <<2, Some(180), Some(150)>> }

AppTaskLists == UNION { [1..n -> AppProfiles] : n \in 1..MaxTasks }

\* the clock of the UI events, 20:30
AppNow == 20 * 60 + 30

\* the slider's default of 2.0 hours, in half hours
AppDailyHalfHours == 4

\* Task.id is a fresh uuid: the tasks of the e-th Extract get ids of their own
FreshTasks(ps, e) ==
    [i \in 1..Len(ps) |->
        [MakeTasks(ps, AppNow)[i] EXCEPT !.id = e * (MaxTasks + 1) + i]]

\* lines 55-59: Extract clicked with nothing pasted or uploaded
AppExtractNoInput ==
    /\ pc = "idle"
    /\ notice' = "Please paste text or upload a file."
    /\ notice' # notice
    /\ UNCHANGED <<planVars, extractVars, dedupeVars, tasks_cache, blocks_cache,
                   extracts, exported>>

\* lines 55-70: Extract clicked with input; extract_tasks_from_inputs returns
\* tasks, which replace tasks_cache
AppExtract ==
    /\ pc = "idle"
    /\ extracts < MaxExtracts
    /\ \E ps \in AppTaskLists : tasks_cache' = FreshTasks(ps, extracts)
    /\ extracts' = extracts + 1
    /\ notice' = "Found task(s)."
    /\ UNCHANGED <<planVars, extractVars, dedupeVars, blocks_cache, exported>>

\* lines 73-74 and 89-90: Plan schedule clicked, plan_blocks is called on the
\* cached tasks
AppPlanClick ==
    /\ pc = "idle"
    /\ tasks_cache # <<>>
    /\ now' = AppNow
    /\ tasks' = tasks_cache
    /\ by_priority' = SortedByKey(tasks_cache, AppNow)
    /\ daily_hours' = AppDailyHalfHours
    /\ blocks' = <<>>
    /\ day_budget' = <<>>
    /\ idx' = 0
    /\ pc' = "for"
    /\ UNCHANGED <<WORK_START, WORK_END, remaining, cursor, last_allowed,
                   extractVars, dedupeVars, appVars>>

\* lines 91-95: the returned blocks replace blocks_cache
AppPlanStore ==
    /\ pc = "done"
    /\ blocks_cache' = blocks
    /\ notice' = IF blocks # <<>> THEN "Created calendar block(s)."
                 ELSE "No blocks created"
    /\ pc' = "idle"
    /\ UNCHANGED <<inputs, by_priority, idx, remaining, cursor, last_allowed,
                   day_budget, blocks, extractVars, dedupeVars, tasks_cache,
                   extracts, exported>>

\* lines 73-74, 97, 108 and 112-117: the .ics download of the cached blocks
AppExport ==
    /\ pc = "idle"
    /\ tasks_cache # <<>>
    /\ exported' = <<blocks_cache>>
    /\ exported' # exported
    /\ UNCHANGED <<planVars, extractVars, dedupeVars, tasks_cache, blocks_cache,
                   extracts, notice>>

AppNext ==
    \/ SetWorkWindow
    \/ AppExtractNoInput
    \/ AppExtract
    \/ AppPlanClick
    \/ PlanStep
    \/ AppPlanStore
    \/ AppExport

AppSpec == Init /\ [][AppNext]_vars

(***************************************************************************)
(* Properties of the session state.                                        *)
(***************************************************************************)
\* C17: every block in blocks_cache belongs, by its task_id, to a task in
\* tasks_cache.
C17_BlocksOfCachedTasks ==
    \A i \in 1..Len(blocks_cache) :
        \E k \in 1..Len(tasks_cache) : tasks_cache[k].id = blocks_cache[i].task_id

====
